---- MODULE Spec2Model ----
(***************************************************************************)
(* gdown: the streaming downloader (gdown/downloader/_download.py) and the *)
(* fan-out coordinator (gdown/downloader/file_downloader.py).              *)
(*                                                                         *)
(* A download() invocation is a task that walks through the statements of  *)
(* download(): session + GET, header processing + opening the temporary    *)
(* file, one step per chunk, rename, cookie save + result record, and the  *)
(* except handler.  The file system is a directory (path -> inode) plus    *)
(* inode contents, so that a rename moves a file an open descriptor still  *)
(* writes to.  Spec runs download() calls one after another (with a        *)
(* process kill at any point); FanSpec runs one FilesDownloader.download   *)
(* call, whose list branch maps download over a ThreadPoolExecutor.        *)
(*                                                                         *)
(* The HTTP client is taken to do what the calls ask of it (a streaming    *)
(* GET, a cookie store one can iterate); pathlib, http.cookiejar and       *)
(* concurrent.futures behave as the standard library documents them.       *)
(*                                                                         *)
(* Three helper functions have a specification each, which draws the       *)
(* function's input and applies it: ResolverSpec scans a confirmation page *)
(* line by line (get_url_from_gdrive_confirmation), ParseSpec runs         *)
(* parse_url (gdown/helpers/parse_url.py) and ExtractSpec runs the suffix  *)
(* dispatch of extract_all (gdown/helpers/extract_all.py).                 *)
(***************************************************************************)
EXTENDS Integers, Sequences, FiniteSets, TLC

\* ------------------------------------------------------------------ bounds
\* download() calls made one after another under Spec
MaxCalls == 2
\* longest URL list handed to FilesDownloader.download under FanSpec
MaxUrls == 3
\* chunks of CHUNK_SIZE bytes in a response body
NChunks == 2
\* max_workers of the ThreadPoolExecutor (the runtime's default; < MaxUrls here
\* so that a future can still be pending when a failure is observed)
PoolSize == 2

NTasks == IF MaxCalls > MaxUrls THEN MaxCalls ELSE MaxUrls
Tasks == 1..NTasks

\* ------------------------------------------------------------------- paths
\* A path is its directory and its final component split as pathlib does:
\* stem and last suffix ("" when the name has no dot).
MkPath(d, s, e) == [dir |-> d, stem |-> s, ext |-> e]
MkName(s, e) == [stem |-> s, ext |-> e]
\* None / an unbound local
NoPath == MkPath("", "", "")
NoName == MkName("", "")

\* The URLs the callers pass:
\*   "zip"  https://host/data.zip
\*   "txt"  https://host/data.txt
\*   "drv"  https://drive.google.com/uc?id=X   (a provider share URL)
Urls == {"zip", "txt", "drv"}

\* Path(url).name
UrlName(u) ==
    CASE u = "zip" -> MkName("data", ".zip")
      [] u = "txt" -> MkName("data", ".txt")
      [] OTHER     -> MkName("uc?id=X", "")

\* The directories that exist (Path.is_dir); "dl" is a directory of the cwd.
DownloadDir == MkPath(".", "dl", "")
is_dir(p) == p = DownloadDir

\* output / filename, for a directory of the cwd
Join(d, name) == MkPath(d.stem, name.stem, name.ext)

\* Path.with_suffix: the last suffix is replaced (appended when there is none)
with_suffix(p, suffix) == [p EXCEPT !.ext = suffix]

\* The output arguments the callers pass: None, an existing directory, a file.
OutPart == MkPath(".", "movie", ".part")
Outputs == {NoPath, DownloadDir, OutPart}

\* ---------------------------------------------------------------- responses
\* What the server may answer to a GET of u: the body that is streamed
\* ("page" is the interstitial confirmation page, otherwise the payload of u),
\* the Content-Disposition filename (NoName: no header) and the Last-Modified
\* header ("absent", "ok", or "bad": not an RFC 2822 date).
MkResp(b, cd, lm) == [body |-> b, cd |-> cd, lm |-> lm]
NoResp == MkResp("", NoName, "")
HTTPError == MkResp("HTTPError", NoName, "")
Responses(u) ==
    CASE u = "zip" -> {MkResp("zip", NoName, "ok"), MkResp("zip", NoName, "bad")}
      [] u = "txt" -> {MkResp("txt", NoName, "absent")}
      [] OTHER     -> {MkResp("page", NoName, "absent"),
                       MkResp("drv", MkName("report", ".pdf"), "ok")}

_get_filename_from_response(response) == response.cd

\* ------------------------------------------------------------------ cookies
Cookies == {"sid", "nid", "aec"}
\* cookies without Expires/Max-Age: Cookie.discard is set
SessionCookies == {"sid"}
\* Set-Cookie headers of the response to a GET of u
SetCookie(u) ==
    CASE u = "zip" -> {"sid"}
      [] u = "txt" -> {"aec"}
      [] OTHER     -> {"nid", "sid"}

MkJar(c) == [exists |-> TRUE, cookies |-> c]
NoJar == [exists |-> FALSE, cookies |-> {}]

\* MozillaCookieJar.save() and .load() with their defaults
\* (ignore_discard=False): cookies marked discard are neither written nor read.
save(cookies) == cookies \ SessionCookies
load(cookies) == cookies \ SessionCookies

\* ------------------------------------------------------------- file content
\* An inode's content is the sequence of its chunks, each tagged with the body
\* it came from; "hole" is a chunk-sized gap left by a write past the end.
Old == [k \in 1..NChunks |-> "old"]
Complete(c) == /\ Len(c) = NChunks
               /\ \A k \in 1..NChunks : c[k] = c[1] /\ c[k] # "hole"

\* f.write(chunk) at chunk offset pos of content c
WriteAt(c, pos, b) ==
    [k \in 1..(IF Len(c) > pos + 1 THEN Len(c) ELSE pos + 1) |->
        IF k = pos + 1 THEN b ELSE IF k <= Len(c) THEN c[k] ELSE "hole"]

\* a rename that leaves an existing target alone
RenamedUnlessExists(d, a, b) ==
    IF a = b \/ b \in DOMAIN d THEN d
    ELSE [q \in (DOMAIN d \ {a}) \cup {b} |-> IF q = b THEN d[a] ELSE d[q]]

\* Path.rename(a -> b) on a directory d that holds a
Renamed(d, a, b) ==
    IF a = b THEN d
    ELSE [q \in (DOMAIN d \ {a}) \cup {b} |-> IF q = b THEN d[a] ELSE d[q]]

\* Path.unlink
Unlinked(d, a) == [q \in DOMAIN d \ {a} |-> d[q]]

\* -------------------------------------------------------------------- state
VARIABLES
    dir,       \* the directory: existing path -> inode
    ino,       \* inode -> content (inode 0: a file that was there before;
               \* inode i: the file task i created)
    cacheDir,  \* ~/.cache/gdown exists
    jar,       \* ~/.cache/gdown/cookies.txt
    jar0,      \* the jar as it was before the first call
    task,      \* the download() invocations
    finished,  \* the tasks in the order in which their download() ended
    call,      \* the arguments of the FilesDownloader.download call
    phase,     \* where FilesDownloader.download is
    yielded,   \* the futures executor.map's iterator has yielded, in order
    ret,       \* what FilesDownloader.download returned
    gd,        \* a get_url_from_gdrive_confirmation(contents) invocation
    pu,        \* a parse_url(url) invocation
    ex         \* an extract_all(path) invocation

vars == <<dir, ino, cacheDir, jar, jar0, task, finished, call, phase, yielded, ret,
          gd, pu, ex>>
fsVars == <<dir, ino>>
fanVars == <<call, phase, yielded, ret, jar0>>
helperVars == <<gd, pu, ex>>
downloadVars == <<dir, ino, cacheDir, jar, jar0, task, finished, call, phase, yielded, ret>>

\* a helper function that is not being called
NotCalled == [pc |-> "off"]
HelpersOff == gd = NotCalled /\ pu = NotCalled /\ ex = NotCalled

NoResult == [url |-> "", output |-> NoPath, last_modified |-> ""]
\* GdownRsp(url=url, output=str(output), last_modified=last_modified, ...)
GdownRsp(u, o, lm) == [url |-> u, output |-> o, last_modified |-> lm]

Idle == [pc |-> "idle", url |-> "", output |-> NoPath, use_cookies |-> FALSE,
         cookies |-> {}, resp |-> NoResp, out |-> NoPath, temp |-> NoPath,
         fd |-> -1, pos |-> 0, at |-> "", err |-> "", result |-> NoResult]

Running == {"connect", "open", "write", "rename", "finish", "except"}
Ended == {"done", "failed", "killed", "cancelled"}

Started(i, u, o, c) ==
    [Idle EXCEPT !.pc = "connect", !.url = u, !.output = o, !.use_cookies = c]

\* the exception e raised at step `at` enters the except clause of line 200
Raise(t, where) == [t EXCEPT !.pc = "except", !.at = where, !.pos = 0]

\* ------------------------------------------------------- download(), by step
\* a session that loads the jar whatever use_cookies says
LoadAlways(use_cookies) ==
    IF jar.exists THEN load(jar.cookies) ELSE {}

\* _get_session: the client's cookies after the jar was loaded
_get_session(use_cookies) ==
    IF use_cookies /\ jar.exists THEN load(jar.cookies) ELSE {}

\* lines 155-163: the session, the GET, raise_for_status
Connect(i) ==
    /\ task[i].pc = "connect"
    /\ \E r \in Responses(task[i].url) \cup {HTTPError} :
        LET t == task[i]
            loaded == _get_session(t.use_cookies)
        IN  /\ task' = [task EXCEPT ![i] =
                  IF r = HTTPError
                  THEN [t EXCEPT !.pc = "failed", !.at = "connect",
                                 !.err = "FileURLRetrievalError"]
                  ELSE [t EXCEPT !.pc = "open", !.resp = r,
                                 !.cookies = loaded \cup SetCookie(t.url)]]
            /\ finished' = IF r = HTTPError THEN Append(finished, i) ELSE finished
    /\ UNCHANGED <<dir, ino, cacheDir, helperVars, jar, fanVars>>

\* line 167-170: the final path
ResolveOutput(output, filename_from_url) ==
    LET o == IF output = NoPath
             THEN MkPath(".", filename_from_url.stem, filename_from_url.ext)
             ELSE output
    IN  IF is_dir(o) THEN Join(o, filename_from_url) ELSE o

\* line 172
TempFile(output) == with_suffix(output, ".part")

\* lines 165-174: filename, Last-Modified, final and temporary path, open("wb")
OpenTemp(i) ==
    /\ task[i].pc = "open"
    /\ \E oserror \in BOOLEAN :
        LET t == task[i]
            cd == _get_filename_from_response(t.resp)
            filename_from_url == IF cd # NoName THEN cd ELSE UrlName(t.url)
            output == ResolveOutput(t.output, filename_from_url)
            temp_file == TempFile(output)
            bound == [t EXCEPT !.out = output, !.temp = temp_file]
        IN  IF t.resp.lm = "bad"
            THEN \* parsedate_to_datetime raises; output and temp_file unbound
                 /\ task' = [task EXCEPT ![i] = Raise(t, "headers")]
                 /\ UNCHANGED fsVars
            ELSE IF oserror
            THEN /\ task' = [task EXCEPT ![i] = Raise(bound, "open")]
                 /\ UNCHANGED fsVars
            ELSE IF temp_file \in DOMAIN dir
            THEN \* an existing file is truncated
                 /\ task' = [task EXCEPT ![i] =
                       [bound EXCEPT !.pc = "write", !.fd = dir[temp_file]]]
                 /\ ino' = [ino EXCEPT ![dir[temp_file]] = <<>>]
                 /\ UNCHANGED dir
            ELSE /\ task' = [task EXCEPT ![i] =
                       [bound EXCEPT !.pc = "write", !.fd = i]]
                 /\ dir' = (temp_file :> i) @@ dir
                 /\ ino' = [ino EXCEPT ![i] = <<>>]
    /\ UNCHANGED <<cacheDir, helperVars, jar, finished, fanVars>>

\* lines 179-181: one chunk of the body, or the stream (or the write) breaks;
\* after the last chunk the with block closes the file
WriteChunk(i) ==
    /\ task[i].pc = "write"
    /\ \E broken \in BOOLEAN :
        LET t == task[i]
        IN  IF broken
            THEN /\ task' = [task EXCEPT ![i] = Raise(t, "stream")]
                 /\ UNCHANGED ino
            ELSE /\ ino' = [ino EXCEPT ![t.fd] = WriteAt(@, t.pos, t.resp.body)]
                 /\ task' = [task EXCEPT ![i] =
                       [t EXCEPT !.pos = t.pos + 1,
                                 !.pc = IF t.pos + 1 = NChunks
                                        THEN "rename" ELSE "write"]]
    /\ UNCHANGED <<dir, cacheDir, helperVars, jar, finished, fanVars>>

\* line 183: temp_file.rename(output)
Rename(i) ==
    /\ task[i].pc = "rename"
    /\ \E oserror \in BOOLEAN :
        LET t == task[i]
        IN  IF oserror \/ t.temp \notin DOMAIN dir
            THEN /\ task' = [task EXCEPT ![i] = Raise(t, "rename")]
                 /\ UNCHANGED dir
            ELSE /\ dir' = Renamed(dir, t.temp, t.out)
                 /\ task' = [task EXCEPT ![i].pc = "finish"]
    /\ UNCHANGED <<ino, cacheDir, helperVars, jar, finished, fanVars>>

\* lines 185-199: the cookie jar is written (its directory is not created),
\* the result record is built and returned
Finish(i) ==
    /\ task[i].pc = "finish"
    /\ LET t == task[i]
       IN  IF t.use_cookies /\ ~cacheDir
           THEN \* cookie_jar.save(): FileNotFoundError
                /\ task' = [task EXCEPT ![i] = Raise(t, "cookies")]
                /\ UNCHANGED <<jar, finished>>
           ELSE /\ jar' = IF t.use_cookies THEN MkJar(save(t.cookies)) ELSE jar
                /\ task' = [task EXCEPT ![i] =
                      [t EXCEPT !.pc = "done",
                                !.result = GdownRsp(t.url, t.out, t.resp.lm)]]
                /\ finished' = Append(finished, i)
    /\ UNCHANGED <<dir, ino, cacheDir, helperVars, fanVars>>

\* lines 200-204: the except clause
Handler(i) ==
    /\ task[i].pc = "except"
    /\ LET t == task[i]
       IN  IF t.temp = NoPath
           THEN \* temp_file is read before assignment
                /\ task' = [task EXCEPT ![i] =
                      [t EXCEPT !.pc = "failed", !.err = "UnboundLocalError"]]
                /\ UNCHANGED dir
           ELSE /\ dir' = IF t.temp \in DOMAIN dir
                          THEN Unlinked(dir, t.temp) ELSE dir
                /\ task' = [task EXCEPT ![i] =
                      [t EXCEPT !.pc = "failed", !.err = "FileURLRetrievalError"]]
    /\ finished' = Append(finished, i)
    /\ UNCHANGED <<ino, cacheDir, helperVars, jar, fanVars>>

\* --------------------------------------------------- sequential calls (Spec)
\* the caller invokes download(url, output, use_cookies=...) once the call
\* before it has ended
Call(i) ==
    /\ phase = "off"
    /\ i <= MaxCalls
    /\ task[i].pc = "idle"
    /\ \A j \in 1..(i - 1) : task[j].pc \in Ended
    /\ \E u \in Urls, o \in Outputs, c \in BOOLEAN :
        task' = [task EXCEPT ![i] = Started(i, u, o, c)]
    /\ UNCHANGED <<dir, ino, cacheDir, helperVars, jar, finished, fanVars>>

\* the process is killed while download() runs
Kill(i) ==
    /\ phase = "off"
    /\ task[i].pc \in Running
    /\ task' = [task EXCEPT ![i].pc = "killed"]
    /\ finished' = Append(finished, i)
    /\ UNCHANGED <<dir, ino, cacheDir, helperVars, jar, fanVars>>

NoCall == [urls |-> <<>>, single |-> FALSE, output |-> NoPath, use_cookies |-> FALSE]
Pending == [kind |-> "pending", list |-> <<>>]

\* what is on disk before the first call
DataZip == MkPath(".", "data", ".zip")
InitFs ==
    /\ dir \in {<<>>, (DataZip :> 0)}
    /\ ino = [k \in 0..NTasks |-> IF k = 0 THEN Old ELSE <<>>]
    /\ cacheDir \in BOOLEAN
    /\ jar \in (IF cacheDir THEN {NoJar, MkJar({"nid"})} ELSE {NoJar})
    /\ jar0 = jar

Init ==
    /\ InitFs
    /\ HelpersOff
    /\ task = [i \in Tasks |-> Idle]
    /\ finished = <<>>
    /\ call = NoCall
    /\ phase = "off"
    /\ yielded = <<>>
    /\ ret = Pending

Next ==
    \E i \in Tasks :
        \/ Call(i)
        \/ Connect(i)
        \/ OpenTemp(i)
        \/ WriteChunk(i)
        \/ Rename(i)
        \/ Finish(i)
        \/ Handler(i)
        \/ Kill(i)

Spec == Init /\ [][Next]_vars

\* ------------------------------------ FilesDownloader.download (FanSpec)
NoneRet == [kind |-> "None", list |-> <<>>]
ListRet(l) == [kind |-> "list", list |-> l]
RecordRet(r) == [kind |-> "record", list |-> <<r>>]

Range(s) == {s[k] : k \in DOMAIN s}
NUrls == Len(call.urls)

\* line 37: download(url, ...) on the caller's thread, inside the try
CallSingle ==
    /\ phase = "init"
    /\ call.single
    /\ task' = [task EXCEPT ![1] =
          Started(1, call.urls[1], call.output, call.use_cookies)]
    /\ phase' = "inline"
    /\ UNCHANGED <<dir, ino, cacheDir, helperVars, jar, jar0, finished, call, yielded, ret>>

\* lines 36-37, 52-54: the single result, or None when download raised
ReturnSingle ==
    /\ phase = "inline"
    /\ task[1].pc \in {"done", "failed"}
    /\ ret' = IF task[1].pc = "done" THEN RecordRet(task[1].result) ELSE NoneRet
    /\ phase' = "returned"
    /\ UNCHANGED <<dir, ino, cacheDir, helperVars, jar, jar0, task, finished, call, yielded>>

\* lines 39-46: executor.map submits one future per URL, all with the same
\* output, before anything is collected
Submit ==
    /\ phase = "init"
    /\ ~call.single
    /\ task' = [i \in Tasks |->
          IF i <= NUrls
          THEN [Started(i, call.urls[i], call.output, call.use_cookies)
                   EXCEPT !.pc = "queued"]
          ELSE Idle]
    /\ phase' = "map"
    /\ UNCHANGED <<dir, ino, cacheDir, helperVars, jar, jar0, finished, call, yielded, ret>>

\* a free worker thread takes the oldest pending future
WorkerTake(i) ==
    /\ task[i].pc = "queued"
    /\ \A j \in 1..(i - 1) : task[j].pc # "queued"
    /\ Cardinality({j \in Tasks : task[j].pc \in Running}) < PoolSize
    /\ task' = [task EXCEPT ![i].pc = "connect"]
    /\ UNCHANGED <<dir, ino, cacheDir, helperVars, jar, finished, fanVars>>

\* the future whose result executor.map's iterator waits for next: the
\* futures are yielded in the order of submission
AsCompleted == {i \in 1..NUrls : i \notin Range(yielded)}
NextFuture == {i \in 1..NUrls : i = Len(yielded) + 1}

\* line 40: list(...) takes the next result
Yield ==
    /\ phase = "map"
    /\ \E f \in NextFuture :
        /\ task[f].pc = "done"
        /\ yielded' = Append(yielded, f)
        /\ phase' = IF Len(yielded) + 1 = NUrls THEN "shutdown" ELSE "map"
    /\ UNCHANGED <<dir, ino, cacheDir, helperVars, jar, jar0, task, finished, call, ret>>

\* line 40: the next future's result() raises the exception of its download;
\* the iterator's finally cancels every future that is still pending
YieldRaises ==
    /\ phase = "map"
    /\ \E f \in NextFuture :
        /\ task[f].pc = "failed"
        /\ task' = [i \in Tasks |->
              IF task[i].pc = "queued"
              THEN [task[i] EXCEPT !.pc = "cancelled"] ELSE task[i]]
    /\ phase' = "raised"
    /\ UNCHANGED <<dir, ino, cacheDir, helperVars, jar, jar0, finished, call, yielded, ret>>

\* lines 39-54: leaving the with block waits for the running futures; then the
\* list is returned, or the exception is caught and None is returned
Return ==
    /\ phase \in {"shutdown", "raised"}
    /\ \A i \in Tasks : task[i].pc \notin Running
    /\ ret' = IF phase = "shutdown"
              THEN ListRet([k \in 1..Len(yielded) |-> task[yielded[k]].result])
              ELSE NoneRet
    /\ phase' = "returned"
    /\ UNCHANGED <<dir, ino, cacheDir, helperVars, jar, jar0, task, finished, call, yielded>>

\* the URL lists handed to the list branch: no URL twice
UrlLists ==
    {l \in UNION {[1..n -> Urls] : n \in 2..MaxUrls} :
        \A a, b \in DOMAIN l : a # b => l[a] # l[b]}
\* the output argument of a batch: the directory the files go to
FanOutputs == {DownloadDir}

FanInit ==
    /\ InitFs
    /\ HelpersOff
    /\ HelpersOff
    /\ dir = <<>>
    /\ task = [i \in Tasks |-> Idle]
    /\ finished = <<>>
    /\ \E o \in FanOutputs, c \in BOOLEAN :
        call \in {[urls |-> l, single |-> FALSE, output |-> o, use_cookies |-> c] :
                     l \in UrlLists}
             \cup {[urls |-> <<u>>, single |-> TRUE, output |-> o, use_cookies |-> c] :
                     u \in Urls}
    /\ phase = "init"
    /\ yielded = <<>>
    /\ ret = Pending

FanNext ==
    \/ CallSingle
    \/ ReturnSingle
    \/ Submit
    \/ Yield
    \/ YieldRaises
    \/ Return
    \/ \E i \in Tasks :
        \/ WorkerTake(i)
        \/ Connect(i)
        \/ OpenTemp(i)
        \/ WriteChunk(i)
        \/ Rename(i)
        \/ Finish(i)
        \/ Handler(i)

FanSpec == FanInit /\ [][FanNext]_vars

\* ------------------- get_url_from_gdrive_confirmation (ResolverSpec)
\* the longest body, in lines
MaxLines == 3

\* str.replace over a text held as a sequence of tokens
Replace(s, old, new) == [k \in DOMAIN s |-> IF s[k] = old THEN new ELSE s[k]]

\* what a regex finds in a line: whether it matches, and its group
NoMatch == [m |-> FALSE, v |-> <<>>]
Found(v) == [m |-> TRUE, v |-> v]
\* what soup.select_one("#download-form") finds: the action and the
\* hidden inputs
NoForm == [m |-> FALSE, action |-> <<>>, hidden |-> <<>>]
Form(a, h) == [m |-> TRUE, action |-> a, hidden |-> h]

\* a line of the body, by what the four patterns find in it
MkLine(h, f, d, e) == [href |-> h, form |-> f, durl |-> d, err |-> e]
HrefText == <<"/uc?export=download", "&amp;", "id=X", "&amp;", "confirm=t">>
DurlText == <<"https://doc-0.googleusercontent.com/docs?e", "\\u003d", "download",
              "\\u0026", "id", "\\u003d", "X">>
FormAction == <<"https://drive.usercontent.google.com/download">>
FormHidden == <<"?", "id=X", "&", "confirm=t">>
Lines ==
    { MkLine(NoMatch, NoForm, NoMatch, NoMatch),
      MkLine(Found(HrefText), NoForm, NoMatch, NoMatch),
      MkLine(NoMatch, Form(FormAction, FormHidden), NoMatch, NoMatch),
      MkLine(NoMatch, NoForm, Found(DurlText), NoMatch),
      MkLine(NoMatch, NoForm, NoMatch, Found(<<"Quota exceeded">>)),
      MkLine(NoMatch, NoForm, NoMatch, Found(<<"Too many users">>)),
      MkLine(Found(HrefText), NoForm, Found(DurlText), Found(<<"Quota exceeded">>)),
      MkLine(NoMatch, Form(<<>>, <<>>), NoMatch, Found(<<"Too many users">>)) }
Bodies == UNION {[1..n -> Lines] : n \in 0..MaxLines}

\* lines 40-42: the export-download anchor
HrefUrl(v) == <<"https://docs.google.com">> \o Replace(v, "&amp;", "&")
\* lines 47-56: the form's action with the hidden inputs as its query
FormUrl(f) == Replace(f.action, "&amp;", "&") \o f.hidden
\* lines 60-62: the downloadUrl field, unescaped
DurlUrl(v) == Replace(Replace(v, "\\u003d", "="), "\\u0026", "&")

GenericMessage ==
    <<"Cannot retrieve the public link of the file. ",
      "You may need to change the permission to ",
      "'Anyone with the link', or have had many accesses. ">>

UrlFound(u) == [kind |-> "url", val |-> u]
CaptionFound(c) == [kind |-> "raise", val |-> c]
NothingFound == [kind |-> "next", val |-> <<>>]

\* a variant of the loop body that looks for the caption first
LineOutcomeCaptionFirst(l) ==
    IF l.err.m THEN CaptionFound(l.err.v)
    ELSE IF l.href.m THEN UrlFound(HrefUrl(l.href.v))
    ELSE IF l.form.m THEN UrlFound(FormUrl(l.form))
    ELSE IF l.durl.m THEN UrlFound(DurlUrl(l.durl.v))
    ELSE NothingFound

\* a variant of the loop body without the caption check
LineOutcomeNoCaption(l) ==
    IF l.href.m THEN UrlFound(HrefUrl(l.href.v))
    ELSE IF l.form.m THEN UrlFound(FormUrl(l.form))
    ELSE IF l.durl.m THEN UrlFound(DurlUrl(l.durl.v))
    ELSE NothingFound

\* lines 39-71: the body of the loop, for one line
LineOutcome(l) ==
    IF l.href.m THEN UrlFound(HrefUrl(l.href.v))
    ELSE IF l.form.m THEN UrlFound(FormUrl(l.form))
    ELSE IF l.durl.m THEN UrlFound(DurlUrl(l.durl.v))
    ELSE IF l.err.m THEN CaptionFound(l.err.v)
    ELSE NothingFound

\* a variant of the loop that keeps scanning after a URL was found
NoBreak(o) == FALSE
\* lines 44, 57, 63: break
Breaks(o) == o.kind = "url"

Scanning(b) ==
    [pc |-> IF Len(b) = 0 THEN "after" ELSE "loop", body |-> b, k |-> 1,
     url |-> <<>>, val |-> <<>>, exc |-> "none"]

\* one iteration of `for line in contents.splitlines()`
ScanLine ==
    /\ gd.pc = "loop"
    /\ LET o == LineOutcome(gd.body[gd.k])
       IN  gd' = IF o.kind = "raise"
                 THEN [gd EXCEPT !.pc = "raised", !.val = o.val,
                                 !.exc = "FileURLRetrievalError"]
                 ELSE [gd EXCEPT
                         !.url = IF o.kind = "url" THEN o.val ELSE gd.url,
                         !.pc = IF Breaks(o) \/ gd.k = Len(gd.body)
                                THEN "after" ELSE "loop",
                         !.k = IF Breaks(o) \/ gd.k = Len(gd.body)
                               THEN gd.k ELSE gd.k + 1]
    /\ UNCHANGED <<downloadVars, pu, ex>>

\* lines 72-74: `if not url: raise ...; return url`
AfterLoop ==
    /\ gd.pc = "after"
    /\ gd' = IF gd.url = <<>>
             THEN [gd EXCEPT !.pc = "raised", !.val = GenericMessage,
                             !.exc = "FileURLRetrievalError"]
             ELSE [gd EXCEPT !.pc = "returned", !.val = gd.url]
    /\ UNCHANGED <<downloadVars, pu, ex>>

\* nothing is being downloaded
DownloadOff ==
    /\ dir = <<>>
    /\ ino = [k \in 0..NTasks |-> <<>>]
    /\ cacheDir = FALSE
    /\ jar = NoJar
    /\ jar0 = NoJar
    /\ task = [i \in Tasks |-> Idle]
    /\ finished = <<>>
    /\ call = NoCall
    /\ phase = "off"
    /\ yielded = <<>>
    /\ ret = Pending

ResolverInit ==
    /\ DownloadOff
    /\ gd \in {Scanning(b) : b \in Bodies}
    /\ pu = NotCalled
    /\ ex = NotCalled

ResolverNext ==
    \/ ScanLine
    \/ AfterLoop

ResolverSpec == ResolverInit /\ [][ResolverNext]_vars

\* --------------------------------------------------- parse_url (ParseSpec)
\* the most parameters in a query string
MaxParams == 2

\* Optional[str]: a string is held as the sequence of its "/"-separated parts
None == [none |-> TRUE, v |-> <<>>]
Str(v) == [none |-> FALSE, v |-> v]

Hosts == {"drive.google.com", "docs.google.com", "example.com"}
\* parsed.path, split at "/"
Paths ==
    { <<"uc">>,
      <<"open">>,
      <<"file", "d", "F1", "view">>,
      <<"file", "d", "F1", "htmlview">>,
      <<"file", "d", "F1", "x", "edit">>,
      <<"file", "u", "0", "d", "F2", "edit">>,
      <<"file", "u", "me", "d", "F2", "edit">>,
      <<"document", "d", "D1", "htmlview">>,
      <<"presentation", "u", "12", "d", "P1", "view">>,
      <<"spreadsheets", "d", "S1", "edit">>,
      <<"spreadsheets", "d", "S1", "preview">> }
\* parsed.query, split at "&" and "="
Params == { [name |-> "id", value |-> "A"], [name |-> "id", value |-> "B"],
            [name |-> "id", value |-> ""],
            [name |-> "export", value |-> "download"] }
Queries == UNION {[1..n -> Params] : n \in 0..MaxParams}

\* urllib.parse.parse_qs: name -> the list of its non-blank values
parse_qs(q) ==
    [n \in {q[k].name : k \in {j \in DOMAIN q : q[j].value # ""}} |->
        LET sel == SelectSeq(q, LAMBDA p : p.name = n /\ p.value # "")
        IN  [k \in DOMAIN sel |-> sel[k].value]]

is_google_drive_url(host) == host \in {"drive.google.com", "docs.google.com"}

\* a pattern of the table: ^/<kind>/d/(.*?)/(<tails>)$, or with /u/[0-9]+
Pattern(kind, multi, tails) == [kind |-> kind, multi |-> multi, tails |-> tails]
PARSING_PATTERNS ==
    << Pattern("file", FALSE, {"edit", "view"}),
       Pattern("file", TRUE, {"edit", "view"}),
       Pattern("document", FALSE, {"edit", "htmlview", "view"}),
       Pattern("document", TRUE, {"edit", "htmlview", "view"}),
       Pattern("presentation", FALSE, {"edit", "htmlview", "view"}),
       Pattern("presentation", TRUE, {"edit", "htmlview", "view"}),
       Pattern("spreadsheets", FALSE, {"edit", "htmlview", "view"}),
       Pattern("spreadsheets", TRUE, {"edit", "htmlview", "view"}) >>
\* the strings [0-9]+ matches, among those the paths use
DigitStrings == {"0", "12"}

\* where the group starts in a path the pattern's prefix matches (0: no match)
GroupStart(p, path) ==
    IF ~p.multi
    THEN IF Len(path) >= 4 /\ path[1] = p.kind /\ path[2] = "d" THEN 3 ELSE 0
    ELSE IF /\ Len(path) >= 6 /\ path[1] = p.kind /\ path[2] = "u"
            /\ path[3] \in DigitStrings /\ path[4] = "d" THEN 5 ELSE 0
\* re.match(pattern, parsed.path): the group, or None
ReMatch(p, path) ==
    IF GroupStart(p, path) # 0 /\ path[Len(path)] \in p.tails
    THEN Str(SubSeq(path, GroupStart(p, path), Len(path) - 1))
    ELSE None

\* lines 58-62: the group of the first pattern that matches
FirstPattern(path) ==
    IF \E k \in DOMAIN PARSING_PATTERNS : ~ReMatch(PARSING_PATTERNS[k], path).none
    THEN ReMatch(PARSING_PATTERNS[
             CHOOSE k \in DOMAIN PARSING_PATTERNS :
                /\ ~ReMatch(PARSING_PATTERNS[k], path).none
                /\ \A j \in 1..(k - 1) : ReMatch(PARSING_PATTERNS[j], path).none],
             path)
    ELSE None

\* lines 44-73: (file_id, is_download_link)
parse_url(host, path, q) ==
    LET query == parse_qs(q)
        is_download_link == path[Len(path)] = "uc"
    IN  IF ~is_google_drive_url(host)
        THEN [file_id |-> None, is_download_link |-> is_download_link]
        ELSE [file_id |->
                 IF "id" \in DOMAIN query
                 THEN IF Len(query["id"]) = 1 THEN Str(<<query["id"][1]>>) ELSE None
                 ELSE FirstPattern(path),
              is_download_link |-> is_download_link]

ParseUrl ==
    /\ pu.pc = "called"
    /\ pu' = [pu EXCEPT !.pc = "returned",
                        !.ret = parse_url(pu.host, pu.path, pu.query)]
    /\ UNCHANGED <<downloadVars, gd, ex>>

ParseInit ==
    /\ DownloadOff
    /\ gd = NotCalled
    /\ pu \in {[pc |-> "called", host |-> h, path |-> p, query |-> q,
                ret |-> [file_id |-> None, is_download_link |-> FALSE]] :
                  h \in Hosts, p \in Paths, q \in Queries}
    /\ ex = NotCalled

ParseNext == ParseUrl

ParseSpec == ParseInit /\ [][ParseNext]_vars

\* ------------------------------------------------ extract_all (ExtractSpec)
\* the most suffixes in a file name
MaxSuffixes == 2

Suffixes == {".zip", ".tar", ".gz", ".tgz", ".bz2", ".tbz", ".txt"}
\* the archive's name, by its suffixes: a.tar.gz is <<".tar", ".gz">>
ArchiveNames == UNION {[1..n -> Suffixes] : n \in 0..MaxSuffixes}

\* Python values of two sequence types: a list never equals a tuple
PyList(s) == [type |-> "list", items |-> s]
PyTuple(s) == [type |-> "tuple", items |-> s]

\* Path.suffix
suffix(name) == IF Len(name) = 0 THEN "" ELSE name[Len(name)]
\* Path.suffixes (a list)
suffixes(name) == PyList(name)
\* l[-2:]
LastTwo(l) ==
    PyList(SubSeq(l.items, IF Len(l.items) > 2 THEN Len(l.items) - 1 ELSE 1,
                  Len(l.items)))

Opener(kind, mode) == [raised |-> "none", opener |-> kind, mode |-> mode]
Unsupported == [raised |-> "ValueError", opener |-> "none", mode |-> ""]

\* lines 20-31: the opener and its mode
SelectOpener(name) ==
    IF suffix(name) = ".zip" THEN Opener("zipfile.ZipFile", "r")
    ELSE IF suffix(name) = ".tar" THEN Opener("tarfile.open", "r")
    ELSE IF LastTwo(suffixes(name)) \in {PyTuple(<<".tar", ".gz">>), PyTuple(<<".tgz">>)}
         THEN Opener("tarfile.open", "r:gz")
    ELSE IF LastTwo(suffixes(name)) \in {PyTuple(<<".tar", ".bz2">>), PyTuple(<<".tbz">>)}
         THEN Opener("tarfile.open", "r:bz2")
    ELSE Unsupported

\* extract_all(path, to): the directory it extracts to and the opener
ExtractAll ==
    /\ ex.pc = "called"
    /\ ex' = [ex EXCEPT !.pc = "ended",
                        !.to = IF ex.to = "" THEN "parent" ELSE ex.to,
                        !.sel = SelectOpener(ex.name)]
    /\ UNCHANGED <<downloadVars, gd, pu>>

ExtractInit ==
    /\ DownloadOff
    /\ gd = NotCalled
    /\ pu = NotCalled
    /\ ex \in {[pc |-> "called", name |-> n, to |-> t, sel |-> Unsupported] :
                  n \in ArchiveNames, t \in {"", "out"}}

ExtractNext == ExtractAll

ExtractSpec == ExtractInit /\ [][ExtractNext]_vars

\* ================================================================== claims
ListCall == phase = "returned" /\ ~call.single
Batch == 1..NUrls
Chunks(p) == Range(ino[dir[p]])

\* C1: a batch of N >= 2 URLs of which exactly one download fails (the others
\* succeed) returns a list of N outcomes in input order: a failure marker at
\* the failing URL's position and the success record at every other position.
C1_PartialFailureKeepsBatch ==
    ( /\ ListCall
      /\ Cardinality({i \in Batch : task[i].pc = "failed"}) = 1
      /\ \A i \in Batch : task[i].pc \in {"done", "failed"} )
    => /\ ret.kind = "list"
       /\ Len(ret.list) = NUrls
       /\ \A i \in Batch :
            ret.list[i] = IF task[i].pc = "failed" THEN NoResult ELSE task[i].result

\* C2: the failure of one URL's download never cancels or prevents a sibling:
\* when the batch call returns, every URL of the list, also one that was still
\* pending when the failure was observed, has had its download started and
\* run to its own end.
C2_SiblingsRunToCompletion ==
    ListCall => \A i \in Batch : task[i].pc \in {"done", "failed"}

\* the call the caller made last: no later call has begun
Current(i) == task[i].pc # "idle" /\ \A j \in Tasks : j > i => task[j].pc = "idle"

\* C3: atomic publish: in every state of a download, whatever the output path,
\* the file at its final path is absent or complete (a file that was complete
\* before, or the whole body of this download), never a partly written body.
C3_AtomicPublish ==
    \A i \in Tasks :
        (Current(i) /\ task[i].out # NoPath /\ task[i].out \in DOMAIN dir)
            => Complete(ino[dir[task[i].out]])

\* C4: when the response to the share URL is the interstitial confirmation
\* page, the page is never what is published at the final path, and no success
\* record is returned for it.
C4_ConfirmationPageResolved ==
    \A i \in Tasks :
        (Current(i) /\ task[i].resp.body = "page")
            => /\ task[i].pc # "done"
               /\ task[i].out \in DOMAIN dir => "page" \notin Chunks(task[i].out)

\* C5: when download() ends with an error raised after its temporary file was
\* created (stream or write, rename, cookie save), and when it returns a
\* success record, no file exists at its temporary path.
C5_NoTempFileAfterEnd ==
    \A i \in Tasks :
        ( /\ Current(i)
          /\ \/ task[i].pc = "done"
             \/ task[i].pc = "failed" /\ task[i].at \in {"stream", "rename", "cookies"} )
        => task[i].temp \notin DOMAIN dir

\* C6: a download that ends with an error leaves no file of its own making at
\* the final path.
C6_FailedAttemptLeavesNoFinalFile ==
    \A i \in Tasks :
        (Current(i) /\ task[i].pc = "failed")
            => ~( /\ task[i].fd # -1
                  /\ task[i].out \in DOMAIN dir
                  /\ dir[task[i].out] = task[i].fd )

\* C7: two downloads that run at the same time with different final paths have
\* different temporary paths.
C7_DistinctTempPaths ==
    \A i, j \in Tasks :
        ( /\ i # j
          /\ task[i].pc \in {"write", "rename"}
          /\ task[j].pc \in {"write", "rename"}
          /\ task[i].out # task[j].out )
        => task[i].temp # task[j].temp

\* C8: after any sequence of download() calls the jar on disk equals the
\* client cookie state of the most recent call that succeeded with
\* use_cookies=True, or its initial content when there was none.
Saved == {i \in Tasks : task[i].pc = "done" /\ task[i].use_cookies}
Latest(S) == CHOOSE i \in S : \A j \in S : j <= i
C8_JarIsLastSuccessfulCookieState ==
    (\A i \in Tasks : task[i].pc \notin Running)
        => jar = IF Saved = {} THEN jar0 ELSE MkJar(task[Latest(Saved)].cookies)

\* C9: with use_cookies=True and no cache directory on disk, a download whose
\* transfer succeeds (the body is streamed and renamed) completes successfully
\* and the jar is written, its parent directories created.
C9_SaveCreatesCacheDir ==
    \A i \in Tasks :
        ( /\ Current(i)
          /\ task[i].pc \in {"done", "failed"}
          /\ task[i].use_cookies
          /\ ~cacheDir
          /\ task[i].at \in {"", "cookies"} )
        => task[i].pc = "done" /\ jar.exists

\* C10: when every download of a batch succeeds, the i-th result of the
\* returned list is the record of the i-th input URL, whatever the order in
\* which the workers finished.
C10_ResultsInInputOrder ==
    (ListCall /\ ret.kind = "list")
        => /\ Len(ret.list) = NUrls
           /\ \A k \in Batch : ret.list[k].url = call.urls[k]

C10_Witness ==
    /\ ListCall
    /\ ret.kind = "list"
    /\ NUrls >= 2
    /\ \E k \in DOMAIN finished : finished[k] # k

\* ---------------------------------------------------------- the resolver
GdEnded == gd.pc \in {"returned", "raised"}
Matches(l) == l.href.m \/ l.form.m \/ l.durl.m \/ l.err.m
HasUrlPattern(l) == l.href.m \/ l.form.m \/ l.durl.m
\* the first line on which any of the four patterns matches (0: none)
FirstMatch(b) ==
    IF \E k \in DOMAIN b : Matches(b[k])
    THEN CHOOSE k \in DOMAIN b :
            Matches(b[k]) /\ \A j \in 1..(k - 1) : ~Matches(b[j])
    ELSE 0
RaisedWith(msg) ==
    gd.pc = "raised" /\ gd.exc = "FileURLRetrievalError" /\ gd.val = msg
\* the line ends the scan with the caption and no URL pattern matches on it
CaptionOnly(l) == l.err.m /\ ~HasUrlPattern(l)

IdValues(q) == SelectSeq(q, LAMBDA p : p.name = "id" /\ p.value # "")

\* C12: on a recognized provider URL, if the query has exactly one value for
\* "id" the identifier is that value; in every other case (no "id", or "id"
\* given more than once) the identifier is the group of the first pattern of
\* the table that matches the path, or None if none matches.
C12_IdOrFirstPattern ==
    (pu.pc = "returned" /\ is_google_drive_url(pu.host))
    => pu.ret.file_id =
          IF Len(IdValues(pu.query)) = 1
          THEN Str(<<IdValues(pu.query)[1].value>>)
          ELSE FirstPattern(pu.path)

\* ------------------------------------------------------- the error types
\* the type get_url_from_gdrive_confirmation raises (lines 71 and 73)
ResolutionErrorType == "FileURLRetrievalError"
FailedAt(i, stages) == task[i].pc = "failed" /\ task[i].at \in stages
AfterStreamBegan == {"stream", "rename", "cookies"}
AfterHeaders == {"headers", "open", "stream", "rename", "cookies"}

\* C13: a failure of the initial request, a link-resolution failure and a
\* failure after streaming began are never reported with the same error type.
C13_ThreeErrorTypes ==
    \A i, j \in Tasks :
        (FailedAt(i, {"connect"}) /\ FailedAt(j, AfterStreamBegan))
        => /\ task[i].err # task[j].err
           /\ task[i].err # ResolutionErrorType
           /\ task[j].err # ResolutionErrorType

\* C14: every failure of a download after the response headers were received,
\* at whichever step, reaches the caller as FileURLRetrievalError.
C14_TypedErrorAfterHeaders ==
    \A i \in Tasks :
        FailedAt(i, AfterHeaders) => task[i].err = "FileURLRetrievalError"

\* ----------------------------------------------------------- extract_all
\* the name ends in the given suffixes
EndsIn(name, tail) ==
    Len(name) >= Len(tail)
    /\ SubSeq(name, Len(name) - Len(tail) + 1, Len(name)) = tail

\* C15: extract_all selects the zip reader for .zip, plain tar for .tar, gzip
\* tar for .tar.gz and .tgz, bzip2 tar for .tar.bz2 and .tbz, and fails with
\* the unsupported-format error exactly for names with any other suffix.
C15_ExtractorBySuffix ==
    ex.pc = "ended"
    => ex.sel =
          IF EndsIn(ex.name, <<".zip">>) THEN Opener("zipfile.ZipFile", "r")
          ELSE IF EndsIn(ex.name, <<".tar">>) THEN Opener("tarfile.open", "r")
          ELSE IF EndsIn(ex.name, <<".tar", ".gz">>) \/ EndsIn(ex.name, <<".tgz">>)
               THEN Opener("tarfile.open", "r:gz")
          ELSE IF EndsIn(ex.name, <<".tar", ".bz2">>) \/ EndsIn(ex.name, <<".tbz">>)
               THEN Opener("tarfile.open", "r:bz2")
          ELSE Unsupported

\* --------------------------------------------------------- re-download
\* the response's body, whole
WholeBody(r) == [k \in 1..NChunks |-> r.body]
\* call i and every call before it were the same download, and all succeeded
SameDownloadAgain(i) ==
    /\ Current(i)
    /\ task[i].pc = "done"
    /\ \A j \in 1..(i - 1) :
          /\ task[j].pc = "done"
          /\ task[j].url = task[i].url
          /\ task[j].output = task[i].output
          /\ task[j].resp = task[i].resp

\* C16: download() run once, or run again with the same URL, output and
\* response, leaves the same files: the final path holds the complete body,
\* and nothing else is on disk but what was there before the first call (no
\* temporary file, no second copy under another name).
C16_RedownloadIdempotent ==
    \A i \in Tasks :
        SameDownloadAgain(i)
        => /\ task[i].out \in DOMAIN dir
           /\ ino[dir[task[i].out]] = WholeBody(task[i].resp)
           /\ \A p \in DOMAIN dir \ {task[i].out} : dir[p] = 0 /\ ino[0] = Old

C16_Witness ==
    /\ SameDownloadAgain(2)
    /\ task[1].fd # task[2].fd
    /\ dir[task[2].out] = task[2].fd

\* ------------------------------------------------- the jar after a batch
\* the positions in `finished` of the downloads that saved the jar
SaveSteps == {k \in DOMAIN finished : task[finished[k]].pc = "done"}
\* the download whose save step ran last
LastSaver == finished[CHOOSE k \in SaveSteps : \A m \in SaveSteps : m <= k]

\* C17: after a batch with use_cookies=True in which some download saved the
\* jar, the jar on disk is exactly the cookie state of the download whose save
\* step ran last.
C17_JarIsLastWritersState ==
    (ListCall /\ call.use_cookies /\ SaveSteps # {})
    => jar = MkJar(task[LastSaver].cookies)

\* ------------------------------------------------- the resolver, by line
\* what the function does when the scan ends at line l
OutcomeOf(l) ==
    LET o == LineOutcome(l)
    IN  IF o.kind = "raise" THEN RaisedWith(o.val)
        ELSE IF o.val = <<>> THEN RaisedWith(GenericMessage)
        ELSE gd.pc = "returned" /\ gd.val = o.val

\* C18: the outcome is that of the first line on which any of the four
\* patterns matches, whatever the lines after it hold (a URL on an earlier
\* line wins over a caption on a later line); if no line matches any pattern
\* the function fails with the generic cannot-retrieve-link error.
C18_FirstMatchingLineDecides ==
    GdEnded
    => IF FirstMatch(gd.body) = 0
       THEN RaisedWith(GenericMessage)
       ELSE OutcomeOf(gd.body[FirstMatch(gd.body)])

C18_Witness ==
    /\ gd.pc = "returned"
    /\ HasUrlPattern(gd.body[FirstMatch(gd.body)])
    /\ \E k \in DOMAIN gd.body :
          k > FirstMatch(gd.body) /\ gd.body[k].err.m

\* the URL of the first URL pattern that matches on line l
FirstUrl(l) ==
    IF l.href.m THEN HrefUrl(l.href.v)
    ELSE IF l.form.m THEN FormUrl(l.form)
    ELSE DurlUrl(l.durl.v)
\* the scan reaches a line that matches the caption and a URL pattern
CaptionAndUrl ==
    /\ GdEnded
    /\ FirstMatch(gd.body) # 0
    /\ gd.body[FirstMatch(gd.body)].err.m
    /\ HasUrlPattern(gd.body[FirstMatch(gd.body)])

RunsWithoutCookies == \E i \in Tasks : task[i].pc \in Running /\ ~task[i].use_cookies
\* the session of a call with use_cookies=False holds nothing from the jar:
\* only what the response set
NothingReadFromJar ==
    \A i \in Tasks :
        (task[i].pc # "idle" /\ ~task[i].use_cookies)
        => task[i].cookies \subseteq SetCookie(task[i].url)

\* C20: a download() call with use_cookies=False never reads the jar, and no
\* step of it, to success or to failure, changes the jar's existence or content.
C20_NoCookiesLeavesJarAlone ==
    /\ []NothingReadFromJar
    /\ [][RunsWithoutCookies => jar' = jar]_vars

C20_Witness ==
    /\ jar = MkJar({"nid"})
    /\ \E i, j \in Tasks :
          /\ ~task[i].use_cookies /\ task[i].pc = "done"
          /\ ~task[j].use_cookies /\ task[j].pc = "failed"

====
